---- MODULE Spec2Model ----
(***************************************************************************)
(* Model of sf::priv::VideoModeImpl (Unix / XRandR back end):              *)
(*   getFullscreenModes()  src/SFML/Window/Unix/VideoModeImpl.cpp 41-140   *)
(*   getDesktopMode()      src/SFML/Window/Unix/VideoModeImpl.cpp 144-222  *)
(*                                                                         *)
(* Each call is a chain of blocking Xlib / XRandR queries followed by the  *)
(* matching frees.  One action models one statement of that chain; the     *)
(* answers of the X server are drawn from small sets at the query that     *)
(* obtains them.  C arrays are 0-based, the sequences here are 1-based:    *)
(* C index n is position n + 1.                                            *)
(***************************************************************************)
EXTENDS Integers, Sequences, FiniteSets, TLC

VARIABLES
    fn,           \* the entry point being executed
    pc,           \* position inside it
    display,      \* Display* display and what DefaultDepth(display, screen) yields
    extension,    \* value of XQueryExtension(display, "RANDR", ...)
    config,       \* XRRScreenConfiguration* config (carries the current rotation)
    res,          \* XRRScreenResources* res (res->modes, res->nmode)
    output_info,  \* XRROutputInfo* output_info (->modes, ->nmode)
    depths,       \* int* depths together with nbDepths
    modes,        \* std::vector<VideoMode> modes
    desktopMode,  \* VideoMode desktopMode
    errs,         \* lines written to sf::err()
    trace,        \* native handles acquired and released, in program order
    modeRead      \* output_info->modes[0] has been evaluated (line 171)

vars == <<fn, pc, display, extension, config, res, output_info, depths,
          modes, desktopMode, errs, trace, modeRead>>

----------------------------------------------------------------------------
(* Bounds of the explored server answers *)

MaxRes == 2
MaxOut == 2
MaxDepths == 2

(* Rotation bits of X11/extensions/randr.h compared at lines 92 and 184 *)
RR_Rotate_90 == 2
RR_Rotate_270 == 8

\* RR_Rotate_0, RR_Rotate_90, RR_Rotate_180, RR_Rotate_270
Rotations == {1, RR_Rotate_90, 4, RR_Rotate_270}

ModeIds == {7, 9}
Sizes == {<<1920, 1080>>, <<1280, 720>>}
DepthValues == {24, 32}
\* what a read past the end of output_info->modes may produce
UndefinedReads == ModeIds \cup {0}

Functions == {"getFullscreenModes", "getDesktopMode"}

SeqsUpTo(S, n) == UNION {[1..m -> S] : m \in 0..n}

ModeInfos == {[id |-> i, width |-> s[1], height |-> s[2]] : i \in ModeIds, s \in Sizes}

----------------------------------------------------------------------------
(* Values *)

VideoMode(w, h, bpp) == [width |-> w, height |-> h, bitsPerPixel |-> bpp]

DefaultVideoMode == VideoMode(0, 0, 0)

EmptyModes == <<>>

NullDisplay == [valid |-> FALSE, defaultDepth |-> 0]
NullConfig == [valid |-> FALSE, rotation |-> 0]
NullRes == [valid |-> FALSE, modes |-> <<>>]
NullOutputInfo == [valid |-> FALSE, modes |-> <<>>]
NullDepths == [valid |-> FALSE, n |-> 0, list |-> <<>>]

Acquire(r) == [op |-> "acquire", r |-> r]
Release(r) == [op |-> "release", r |-> r]

----------------------------------------------------------------------------
(* Diagnostics *)

ErrConnect(f) ==
    IF f = "getFullscreenModes"
    THEN "Failed to connect to the X server while trying to get the supported video modes"
    ELSE "Failed to connect to the X server while trying to get the desktop video modes"

ErrExtension(f) ==
    IF f = "getFullscreenModes"
    THEN "Failed to use the XRandR extension while trying to get the supported video modes"
    ELSE "Failed to use the XRandR extension while trying to get the desktop video modes"

ErrConfig(f) ==
    IF f = "getFullscreenModes"
    THEN "Failed to retrieve the screen configuration while trying to get the supported video modes"
    ELSE "Failed to retrieve the screen configuration while trying to get the desktop video modes"

----------------------------------------------------------------------------
(* Branch conditions of the acquisition chain *)

AfterDisplay(valid) == IF valid THEN "XQueryExtension" ELSE "ErrConnect"

AfterExtensionUnchecked(present) == "XRRGetScreenInfo"
AfterExtension(present) == IF present THEN "XRRGetScreenInfo" ELSE "ErrExtension"

AfterConfigUnchecked(valid) == "XRRGetScreenResources"
AfterConfig(valid) == IF valid THEN "XRRGetScreenResources" ELSE "ErrConfig"

AfterResources(valid) == IF valid THEN "XRRGetOutputInfo" ELSE "XRRFreeScreenConfigInfo"

AfterOutputInfo(f, valid) ==
    IF valid
    THEN IF f = "getFullscreenModes" THEN "XListDepths" ELSE "ResolveDesktop"
    ELSE "XRRFreeScreenResources"

AfterDepths(d) == IF d.valid /\ d.n > 0 THEN "Enumerate" ELSE "XRRFreeOutputInfo"

----------------------------------------------------------------------------
(* The computations *)

SwapNeededWrongBit(currentRotation) ==
    currentRotation = RR_Rotate_90 \/ currentRotation = 4
SwapNeeded(currentRotation) ==
    currentRotation = RR_Rotate_90 \/ currentRotation = RR_Rotate_270

\* std::swap(mode.width, mode.height) under the rotation test
Rotate(mode, currentRotation) ==
    IF SwapNeeded(currentRotation)
    THEN VideoMode(mode.height, mode.width, mode.bitsPerPixel)
    ELSE mode

Contains(list, mode) == \E n \in 1..Len(list) : list[n] = mode

AddModeNoFind(list, mode) == Append(list, mode)
AddModeFront(list, mode) == IF Contains(list, mode) THEN list ELSE <<mode>> \o list
\* if (std::find(...) == modes.end()) modes.push_back(mode);
AddMode(list, mode) == IF Contains(list, mode) THEN list ELSE Append(list, mode)

\* for (int k = 0; k < res->nmode; ++k), position k of the table onwards
RECURSIVE ScanResourcesSkipLast(_, _, _, _, _, _)
ScanResourcesSkipLast(acc, table, k, jmode, depth, rot) ==
    IF k > Len(table) - 1 THEN acc
    ELSE ScanResourcesSkipLast(
             IF jmode = table[k].id
             THEN AddMode(acc, Rotate(VideoMode(table[k].width, table[k].height, depth), rot))
             ELSE acc,
             table, k + 1, jmode, depth, rot)
RECURSIVE ScanResources(_, _, _, _, _, _)
ScanResources(acc, table, k, jmode, depth, rot) ==
    IF k > Len(table) THEN acc
    ELSE ScanResources(
             IF jmode = table[k].id
             THEN AddMode(acc, Rotate(VideoMode(table[k].width, table[k].height, depth), rot))
             ELSE acc,
             table, k + 1, jmode, depth, rot)

\* for (int j = 0; j < output_info->nmode; ++j)
RECURSIVE ScanOutputModes(_, _, _, _, _, _)
ScanOutputModes(acc, outModes, j, table, depth, rot) ==
    IF j > Len(outModes) THEN acc
    ELSE ScanOutputModes(ScanResources(acc, table, 1, outModes[j], depth, rot),
                         outModes, j + 1, table, depth, rot)

\* for (int i = 0; i < nbDepths; ++i)
RECURSIVE ScanDepths(_, _, _, _, _, _)
ScanDepths(acc, d, i, outModes, table, rot) ==
    IF i > d.n THEN acc
    ELSE ScanDepths(ScanOutputModes(acc, outModes, 1, table, d.list[i], rot),
                    d, i + 1, outModes, table, rot)

\* RRMode mode = output_info->modes[0];
DesktopModeIdLast(outModes) == outModes[Len(outModes)]
DesktopModeId(outModes) == outModes[1]

\* the loop of getDesktopMode: every matching descriptor overwrites desktopMode
RECURSIVE DesktopScan(_, _, _, _, _, _)
DesktopScan(cur, table, k, mode, depth, rot) ==
    IF k > Len(table) THEN cur
    ELSE DesktopScan(
             IF mode = table[k].id
             THEN Rotate(VideoMode(table[k].width, table[k].height, depth), rot)
             ELSE cur,
             table, k + 1, mode, depth, rot)

----------------------------------------------------------------------------
(* State machine *)

Init ==
    /\ fn \in Functions
    /\ pc = "OpenDisplay"
    /\ display = NullDisplay
    /\ extension = FALSE
    /\ config = NullConfig
    /\ res = NullRes
    /\ output_info = NullOutputInfo
    /\ depths = NullDepths
    /\ modes = EmptyModes
    /\ desktopMode = DefaultVideoMode
    /\ errs = <<>>
    /\ trace = <<>>
    /\ modeRead = FALSE

\* Display* display = OpenDisplay();  if (display)
OpenDisplay ==
    /\ pc = "OpenDisplay"
    /\ \E d \in {NullDisplay} \cup {[valid |-> TRUE, defaultDepth |-> b] : b \in DepthValues} :
          /\ display' = d
          /\ trace' = IF d.valid THEN Append(trace, Acquire("display")) ELSE trace
          /\ pc' = AfterDisplay(d.valid)
    /\ UNCHANGED <<fn, extension, config, res, output_info, depths, modes,
                   desktopMode, errs, modeRead>>

\* if (XQueryExtension(display, "RANDR", &version, &version, &version))
XQueryExtension ==
    /\ pc = "XQueryExtension"
    /\ \E present \in BOOLEAN :
          /\ extension' = present
          /\ pc' = AfterExtension(present)
    /\ UNCHANGED <<fn, display, config, res, output_info, depths, modes,
                   desktopMode, errs, trace, modeRead>>

\* config = XRRGetScreenInfo(...);  if (config)
XRRGetScreenInfo ==
    /\ pc = "XRRGetScreenInfo"
    /\ \E c \in {NullConfig} \cup {[valid |-> TRUE, rotation |-> r] : r \in Rotations} :
          /\ config' = c
          /\ trace' = IF c.valid THEN Append(trace, Acquire("config")) ELSE trace
          /\ pc' = AfterConfig(c.valid)
    /\ UNCHANGED <<fn, display, extension, res, output_info, depths, modes,
                   desktopMode, errs, modeRead>>

\* res = XRRGetScreenResources(...);  if (res)
XRRGetScreenResources ==
    /\ pc = "XRRGetScreenResources"
    /\ \E r \in {NullRes} \cup {[valid |-> TRUE, modes |-> t] : t \in SeqsUpTo(ModeInfos, MaxRes)} :
          /\ res' = r
          /\ trace' = IF r.valid THEN Append(trace, Acquire("res")) ELSE trace
          /\ pc' = AfterResources(r.valid)
    /\ UNCHANGED <<fn, display, extension, config, output_info, depths, modes,
                   desktopMode, errs, modeRead>>

\* output_info = XRRGetOutputInfo(display, res, output);  if (output_info)
XRRGetOutputInfo ==
    /\ pc = "XRRGetOutputInfo"
    /\ \E o \in {NullOutputInfo} \cup {[valid |-> TRUE, modes |-> l] : l \in SeqsUpTo(ModeIds, MaxOut)} :
          /\ output_info' = o
          /\ trace' = IF o.valid THEN Append(trace, Acquire("output_info")) ELSE trace
          /\ pc' = AfterOutputInfo(fn, o.valid)
    /\ UNCHANGED <<fn, display, extension, config, res, depths, modes,
                   desktopMode, errs, modeRead>>

\* int nbDepths = 0;  depths = XListDepths(display, screen, &nbDepths);
\* if (depths && (nbDepths > 0))
XListDepths ==
    /\ pc = "XListDepths"
    /\ \E d \in {NullDepths}
                \cup {[valid |-> TRUE, n |-> Len(l), list |-> l] : l \in SeqsUpTo(DepthValues, MaxDepths)} :
          /\ depths' = d
          /\ trace' = IF d.valid THEN Append(trace, Acquire("depths")) ELSE trace
          /\ pc' = AfterDepths(d)
    /\ UNCHANGED <<fn, display, extension, config, res, output_info, modes,
                   desktopMode, errs, modeRead>>

\* the three nested loops of getFullscreenModes
Enumerate ==
    /\ pc = "Enumerate"
    /\ modes' = ScanDepths(modes, depths, 1, output_info.modes, res.modes, config.rotation)
    /\ pc' = "XFree"
    /\ UNCHANGED <<fn, display, extension, config, res, output_info, depths,
                   desktopMode, errs, trace, modeRead>>

\* XFree(depths);
XFree ==
    /\ pc = "XFree"
    /\ trace' = Append(trace, Release("depths"))
    /\ pc' = "XRRFreeOutputInfo"
    /\ UNCHANGED <<fn, display, extension, config, res, output_info, depths, modes,
                   desktopMode, errs, modeRead>>

\* RRMode mode = output_info->modes[0]; and the loop over res->modes.
\* With output_info->nmode == 0 the read is past the end of the array: it
\* yields an arbitrary identifier or the process faults.
ResolveDesktop ==
    /\ pc = "ResolveDesktop"
    /\ modeRead' = TRUE
    /\ \/ /\ Len(output_info.modes) > 0
          /\ desktopMode' = DesktopScan(desktopMode, res.modes, 1,
                                        DesktopModeId(output_info.modes),
                                        display.defaultDepth, config.rotation)
          /\ pc' = "XRRFreeOutputInfo"
       \/ /\ Len(output_info.modes) = 0
          /\ \E g \in UndefinedReads :
                desktopMode' = DesktopScan(desktopMode, res.modes, 1, g,
                                           display.defaultDepth, config.rotation)
          /\ pc' = "XRRFreeOutputInfo"
       \/ /\ Len(output_info.modes) = 0
          /\ desktopMode' = desktopMode
          /\ pc' = "fault"
    /\ UNCHANGED <<fn, display, extension, config, res, output_info, depths, modes,
                   errs, trace>>

\* XRRFreeOutputInfo(output_info);
XRRFreeOutputInfo ==
    /\ pc = "XRRFreeOutputInfo"
    /\ trace' = Append(trace, Release("output_info"))
    /\ pc' = "XRRFreeScreenResources"
    /\ UNCHANGED <<fn, display, extension, config, res, output_info, depths, modes,
                   desktopMode, errs, modeRead>>

\* XRRFreeScreenResources(res);
XRRFreeScreenResources ==
    /\ pc = "XRRFreeScreenResources"
    /\ trace' = Append(trace, Release("res"))
    /\ pc' = "XRRFreeScreenConfigInfo"
    /\ UNCHANGED <<fn, display, extension, config, res, output_info, depths, modes,
                   desktopMode, errs, modeRead>>

\* XRRFreeScreenConfigInfo(config);
XRRFreeScreenConfigInfo ==
    /\ pc = "XRRFreeScreenConfigInfo"
    /\ trace' = Append(trace, Release("config"))
    /\ pc' = "CloseDisplay"
    /\ UNCHANGED <<fn, display, extension, config, res, output_info, depths, modes,
                   desktopMode, errs, modeRead>>

\* else branch of if (config)
ReportConfig ==
    /\ pc = "ErrConfig"
    /\ errs' = Append(errs, ErrConfig(fn))
    /\ pc' = "CloseDisplay"
    /\ UNCHANGED <<fn, display, extension, config, res, output_info, depths, modes,
                   desktopMode, trace, modeRead>>

\* else branch of if (XQueryExtension(...))
ReportExtension ==
    /\ pc = "ErrExtension"
    /\ errs' = Append(errs, ErrExtension(fn))
    /\ pc' = "CloseDisplay"
    /\ UNCHANGED <<fn, display, extension, config, res, output_info, depths, modes,
                   desktopMode, trace, modeRead>>

\* CloseDisplay(display);
CloseDisplay ==
    /\ pc = "CloseDisplay"
    /\ trace' = Append(trace, Release("display"))
    /\ pc' = "return"
    /\ UNCHANGED <<fn, display, extension, config, res, output_info, depths, modes,
                   desktopMode, errs, modeRead>>

\* else branch of if (display)
ReportConnect ==
    /\ pc = "ErrConnect"
    /\ errs' = Append(errs, ErrConnect(fn))
    /\ pc' = "return"
    /\ UNCHANGED <<fn, display, extension, config, res, output_info, depths, modes,
                   desktopMode, trace, modeRead>>

\* return modes;  /  return desktopMode;
Return ==
    /\ pc = "return"
    /\ pc' = "done"
    /\ UNCHANGED <<fn, display, extension, config, res, output_info, depths, modes,
                   desktopMode, errs, trace, modeRead>>

\* the next, independent call of either entry point: all locals are fresh
Call ==
    /\ pc = "done"
    /\ fn' \in Functions
    /\ pc' = "OpenDisplay"
    /\ display' = NullDisplay
    /\ extension' = FALSE
    /\ config' = NullConfig
    /\ res' = NullRes
    /\ output_info' = NullOutputInfo
    /\ depths' = NullDepths
    /\ modes' = EmptyModes
    /\ desktopMode' = DefaultVideoMode
    /\ errs' = <<>>
    /\ trace' = <<>>
    /\ modeRead' = FALSE

Next ==
    \/ OpenDisplay
    \/ XQueryExtension
    \/ XRRGetScreenInfo
    \/ XRRGetScreenResources
    \/ XRRGetOutputInfo
    \/ XListDepths
    \/ Enumerate
    \/ XFree
    \/ ResolveDesktop
    \/ XRRFreeOutputInfo
    \/ XRRFreeScreenResources
    \/ XRRFreeScreenConfigInfo
    \/ ReportConfig
    \/ ReportExtension
    \/ CloseDisplay
    \/ ReportConnect
    \/ Return
    \/ Call

Spec == Init /\ [][Next]_vars

----------------------------------------------------------------------------
(* Vocabulary of the properties *)

Fullscreen == fn = "getFullscreenModes"
Desktop == fn = "getDesktopMode"
Returned == pc = "done"

\* The first step of the acquisition chain that did not deliver, read off the
\* locals of the finished call
FailedStep ==
    IF ~display.valid THEN "connection"
    ELSE IF ~extension THEN "extension"
    ELSE IF ~config.valid THEN "configuration"
    ELSE IF ~res.valid THEN "resources"
    ELSE IF ~output_info.valid THEN "output"
    ELSE IF Fullscreen /\ ~(depths.valid /\ depths.n > 0) THEN "depths"
    ELSE "none"

\* The mode a descriptor stands for at depth d under rotation rot
\* (1 = 0 degrees, 2 = 90, 4 = 180, 8 = 270)
Expected(info, d, rot) ==
    IF rot \in {2, 8}
    THEN [width |-> info.height, height |-> info.width, bitsPerPixel |-> d]
    ELSE [width |-> info.width, height |-> info.height, bitsPerPixel |-> d]

\* (depth position, output-mode position, descriptor position) of every
\* candidate of the enumeration
Triples ==
    {t \in (1..depths.n) \X (1..Len(output_info.modes)) \X (1..Len(res.modes)) :
        res.modes[t[3]].id = output_info.modes[t[2]]}

Cand(t) == Expected(res.modes[t[3]], depths.list[t[1]], config.rotation)

\* s is visited before t by the depth / output-mode / descriptor traversal
Before(s, t) ==
    \/ s[1] < t[1]
    \/ s[1] = t[1] /\ s[2] < t[2]
    \/ s[1] = t[1] /\ s[2] = t[2] /\ s[3] < t[3]

FirstDiscovery(m) ==
    CHOOSE t \in Triples :
        /\ Cand(t) = m
        /\ \A s \in Triples : Cand(s) = m => (s = t \/ Before(t, s))

Occurrences(list, m) == Cardinality({n \in 1..Len(list) : list[n] = m})

----------------------------------------------------------------------------
\* C1: after a getFullscreenModes call in which every acquisition step
\* succeeded, for every depth D of the depth list and every identifier M of
\* the output's mode list that has a descriptor in the resource table, the
\* returned sequence holds exactly one VideoMode equal to
\* (descriptor.width, descriptor.height, D) after rotation correction.
C1_ExactlyOne ==
    (Returned /\ Fullscreen /\ FailedStep = "none") =>
        \A t \in Triples : Occurrences(modes, Cand(t)) = 1

\* a finished enumeration in which one triple was discovered along two paths
C1_Witness ==
    /\ Returned /\ Fullscreen /\ FailedStep = "none"
    /\ \E s, t \in Triples : s # t /\ Cand(s) = Cand(t)
    /\ Len(modes) >= 2

\* C2: in both entry points width and height of a mode taken from a
\* descriptor are exchanged exactly when the current rotation is 90 or 270
\* degrees; under 0 or 180 degrees they are the descriptor's.
C2_RotationSwap ==
    (Returned /\ FailedStep = "none") =>
        LET quarter == config.rotation \in {2, 8}
            FromDescriptor(m, info) ==
                IF quarter
                THEN m.width = info.height /\ m.height = info.width
                ELSE m.width = info.width /\ m.height = info.height
        IN  /\ Fullscreen =>
                /\ \A n \in 1..Len(modes) :
                      \E t \in Triples :
                          /\ FromDescriptor(modes[n], res.modes[t[3]])
                          /\ modes[n].bitsPerPixel = depths.list[t[1]]
                /\ \A t \in Triples :
                      \E n \in 1..Len(modes) :
                          /\ FromDescriptor(modes[n], res.modes[t[3]])
                          /\ modes[n].bitsPerPixel = depths.list[t[1]]
            /\ (Desktop /\ Len(output_info.modes) > 0
                  /\ \E k \in 1..Len(res.modes) : res.modes[k].id = output_info.modes[1]) =>
                \E k \in 1..Len(res.modes) :
                    /\ res.modes[k].id = output_info.modes[1]
                    /\ FromDescriptor(desktopMode, res.modes[k])

\* Scenario B: depths = [24], one output mode, its descriptor 1920x1080,
\* rotation 90 degrees: the result is [(1080, 1920, 24)]
C2_Witness ==
    /\ Returned /\ Fullscreen /\ FailedStep = "none"
    /\ config.rotation = 2
    /\ depths.list = <<24>>
    /\ output_info.modes = <<7>>
    /\ res.modes = <<[id |-> 7, width |-> 1920, height |-> 1080]>>
    /\ modes = <<[width |-> 1080, height |-> 1920, bitsPerPixel |-> 24]>>

\* C3: getFullscreenModes returns the empty sequence, and does not fault,
\* whenever the connection, the extension query or one of the four metadata
\* fetches fails.
C3_EmptyOnFailure ==
    Fullscreen =>
        /\ pc # "fault"
        /\ (Returned /\ FailedStep # "none") => modes = <<>>

\* the depth list is missing although output and resource table would match
C3_Witness ==
    /\ Returned /\ Fullscreen /\ FailedStep = "depths"
    /\ \E j \in 1..Len(output_info.modes), k \in 1..Len(res.modes) :
          res.modes[k].id = output_info.modes[j]
    /\ modes = <<>>

\* C4: getDesktopMode returns VideoMode(0, 0, 0) whenever the connection,
\* the extension query or one of the three metadata fetches fails.
C4_ZeroOnFailure ==
    (Returned /\ Desktop /\ FailedStep # "none") =>
        desktopMode = [width |-> 0, height |-> 0, bitsPerPixel |-> 0]

\* the output descriptor is missing although the resource table has modes
C4_Witness ==
    /\ Returned /\ Desktop /\ FailedStep = "output"
    /\ Len(res.modes) > 0
    /\ desktopMode = [width |-> 0, height |-> 0, bitsPerPixel |-> 0]

\* The step a diagnostic line names
StepNamed(line) ==
    IF line \in {ErrConnect(f) : f \in Functions} THEN "connection"
    ELSE IF line \in {ErrExtension(f) : f \in Functions} THEN "extension"
    ELSE IF line \in {ErrConfig(f) : f \in Functions} THEN "configuration"
    ELSE "other"

\* C5: a call that fails at some step emits exactly one diagnostic line,
\* which names that step; a call in which every step succeeds emits none.
C5_OneDiagnostic ==
    Returned =>
        IF FailedStep = "none"
        THEN errs = <<>>
        ELSE Len(errs) = 1 /\ StepNamed(errs[1]) = FailedStep

Acquired == SelectSeq(trace, LAMBDA e : e.op = "acquire")
Released == SelectSeq(trace, LAMBDA e : e.op = "release")
AcquisitionOrder == <<"display", "config", "res", "output_info", "depths">>

\* C6: on every exit path every acquired handle has been released exactly
\* once before the return, in the exact reverse of the acquisition order
\* display, config, res, output_info, depths.
C6_ReleasedInReverse ==
    Returned =>
        /\ Len(Released) = Len(Acquired)
        /\ \A n \in 1..Len(Acquired) :
              /\ Acquired[n].r = AcquisitionOrder[n]
              /\ n <= Len(Released) => Released[Len(Released) - n + 1].r = Acquired[n].r
        /\ trace = Acquired \o Released

\* Position of the last descriptor of the table that carries identifier id
LastMatch(id) ==
    CHOOSE k \in 1..Len(res.modes) :
        /\ res.modes[k].id = id
        /\ \A l \in 1..Len(res.modes) : res.modes[l].id = id => l <= k

\* C7: when every step succeeds and the resource table holds a descriptor
\* for the identifier at position zero of the output's mode list,
\* getDesktopMode returns (descriptor.width, descriptor.height, default
\* depth) after rotation correction (of the last such descriptor in table
\* order); the other identifiers of the list play no part and the depth
\* list is not fetched.
C7_DesktopMode ==
    (Returned /\ Desktop /\ FailedStep = "none" /\ Len(output_info.modes) > 0
       /\ \E k \in 1..Len(res.modes) : res.modes[k].id = output_info.modes[1]) =>
        /\ desktopMode = Expected(res.modes[LastMatch(output_info.modes[1])],
                                  display.defaultDepth, config.rotation)
        /\ depths = NullDepths
        /\ \A e \in 1..Len(trace) : trace[e].r # "depths"

\* Scenario E: output modes [M7, M9], M7 = 1280x720, default depth 24,
\* rotation 180 degrees: the result is (1280, 720, 24)
C7_Witness ==
    /\ Returned /\ Desktop /\ FailedStep = "none"
    /\ output_info.modes = <<7, 9>>
    /\ res.modes = <<[id |-> 7, width |-> 1280, height |-> 720]>>
    /\ display.defaultDepth = 24
    /\ config.rotation = 4
    /\ desktopMode = [width |-> 1280, height |-> 720, bitsPerPixel |-> 24]

\* C8: the sequence a successful getFullscreenModes returns is the
\* first-occurrence deduplication of the candidates in traversal order
\* (depth, then output mode, then descriptor): only candidates, every
\* candidate, none twice, ordered by first discovery.
C8_DiscoveryOrder ==
    (Returned /\ Fullscreen /\ FailedStep = "none") =>
        /\ \A n \in 1..Len(modes) : \E t \in Triples : Cand(t) = modes[n]
        /\ \A t \in Triples : \E n \in 1..Len(modes) : modes[n] = Cand(t)
        /\ \A p, q \in 1..Len(modes) : p < q => modes[p] # modes[q]
        /\ \A p, q \in 1..Len(modes) :
              p < q => Before(FirstDiscovery(modes[p]), FirstDiscovery(modes[q]))

\* several entries, and more discoveries than entries
C8_Witness ==
    /\ Returned /\ Fullscreen /\ FailedStep = "none"
    /\ Len(modes) >= 2
    /\ Cardinality(Triples) > Len(modes)

\* The identifiers the resource table knows, and the ways a map from
\* identifier to a single descriptor can be built from it
TableIds == {res.modes[k].id : k \in 1..Len(res.modes)}
IdMaps ==
    {c \in [TableIds -> 1..Len(res.modes)] : \A id \in TableIds : res.modes[c[id]].id = id}

PushUnique(list, m) ==
    IF \E n \in 1..Len(list) : list[n] = m THEN list ELSE Append(list, m)

\* one lookup per (depth, output mode) pair
RECURSIVE MapOutputModes(_, _, _, _)
MapOutputModes(acc, c, i, j) ==
    IF j > Len(output_info.modes) THEN acc
    ELSE MapOutputModes(
             IF output_info.modes[j] \in TableIds
             THEN PushUnique(acc, Expected(res.modes[c[output_info.modes[j]]],
                                           depths.list[i], config.rotation))
             ELSE acc,
             c, i, j + 1)

RECURSIVE MapDepths(_, _, _)
MapDepths(acc, c, i) ==
    IF i > depths.n THEN acc
    ELSE MapDepths(MapOutputModes(acc, c, i, 1), c, i + 1)

MapEnumerate(c) == MapDepths(<<>>, c, 1)

SameIdSameSize ==
    \A k, l \in 1..Len(res.modes) :
        res.modes[k].id = res.modes[l].id =>
            /\ res.modes[k].width = res.modes[l].width
            /\ res.modes[k].height = res.modes[l].height

\* C9 as stated: looking every (depth, output mode) pair up in a map from
\* identifier to a single descriptor returns the sequence of the nested
\* scan for every resource table, also one with a repeated identifier.
C9_MapEquivalent ==
    (Returned /\ Fullscreen /\ FailedStep = "none") =>
        \E c \in IdMaps : modes = MapEnumerate(c)

\* C9 amended: the map returns the sequence of the nested scan for every
\* resource table whose descriptors with equal identifier have equal width
\* and height.
C9_MapEquivalentSameSize ==
    (Returned /\ Fullscreen /\ FailedStep = "none" /\ SameIdSameSize) =>
        \A c \in IdMaps : modes = MapEnumerate(c)

\* an identifier of the output carried by two descriptors of equal size
C9_Witness ==
    /\ Returned /\ Fullscreen /\ FailedStep = "none" /\ SameIdSameSize
    /\ \E s, t \in Triples : s[3] # t[3] /\ s[1] = t[1] /\ s[2] = t[2]
    /\ Len(modes) >= 1

\* C10: getDesktopMode reads position zero of the output's mode list only
\* when the list is non-empty; with an empty list nothing is read and the
\* zero-valued VideoMode is returned.
C10_NoReadOfEmptyList ==
    (Desktop /\ output_info.valid /\ Len(output_info.modes) = 0) =>
        /\ ~modeRead
        /\ pc # "fault"
        /\ Returned => desktopMode = [width |-> 0, height |-> 0, bitsPerPixel |-> 0]

====
